---- MODULE Spec2Model ----
(***************************************************************************)
(* The release stores of the publication service (JournalReleaseStore and  *)
(* FileReleaseStore), the delivery directory they publish into, and the    *)
(* Delivery API's resolver that reads it.                                  *)
(*                                                                         *)
(* Every `await` on file I/O is a scheduling point: the code between two   *)
(* of them runs as one step (one turn of the Node event loop).  A request  *)
(* handler is a process; Procs are the requests that can be in flight at   *)
(* once.  fs.promises.writeFile opens its file with flag 'w' (the file is  *)
(* truncated when opened) and then writes the payload, so a file that is   *)
(* being written, or whose write failed after the open, holds no JSON.     *)
(***************************************************************************)
EXTENDS Integers, Sequences, FiniteSets, TLC

\* ------------------------------------------------------------------ bounds
NProcs == 2
MaxReleases == 2
MaxClock == 2
MaxRestarts == 1
MaxOps == 3
MaxSeqOps == 4
NTasks == 2
MaxLocal == 2
MaxCalls == 4
MaxEdits == 1

Procs == 1..NProcs
Ids == 1..MaxReleases

\* ------------------------------------------------------------- data shapes
\* An optional field that is undefined (promotedAt?, rolledBackAt?).
Undefined == 0

Statuses == {"created", "promoted", "rolledback"}

PageDemo ==
  [id |-> "page-1", path |-> "/demo", locale |-> "en-AU", title |-> "Demo",
   components |-> <<>>]
PageHome ==
  [id |-> "page-2", path |-> "/", locale |-> "en-AU", title |-> "Home",
   components |-> <<>>]

\* The page lists a create call is given (non-empty: createReleaseSchema).
PageLists == {<<PageDemo>>, <<PageHome, PageDemo>>}

ReleaseKeys == {"id", "status", "createdAt", "promotedAt", "rolledBackAt", "pages"}
OptionalKeys == {"promotedAt", "rolledBackAt"}

\* A faulty create that stores the pages in reverse order.
NewReleaseReversesPages(id, t, pages) ==
  [id |-> id, status |-> "created", createdAt |-> t,
   promotedAt |-> Undefined, rolledBackAt |-> Undefined,
   pages |-> [i \in 1..Len(pages) |-> pages[Len(pages) + 1 - i]]]

\* create: the release object built from the payload.
NewRelease(id, t, pages) ==
  [id |-> id, status |-> "created", createdAt |-> t,
   promotedAt |-> Undefined, rolledBackAt |-> Undefined, pages |-> pages]

\* A faulty promote that forgets the status assignment.
PromotedKeepsStatus(r, t) ==
  [r EXCEPT !.promotedAt = t, !.rolledBackAt = Undefined]

\* A faulty promote that leaves the rollback timestamp in place.
PromotedKeepsRollbackStamp(r, t) ==
  [r EXCEPT !.status = "promoted", !.promotedAt = t]

\* promote: the three assignments to the release.
Promoted(r, t) ==
  [r EXCEPT !.status = "promoted", !.promotedAt = t, !.rolledBackAt = Undefined]

\* A faulty rollback that puts the release back to created.
RolledBackResets(r, t) ==
  [r EXCEPT !.status = "created", !.rolledBackAt = t]

\* A faulty rollback that leaves the rollback timestamp unset.
RolledBackNoTimestamp(r, t) ==
  [r EXCEPT !.status = "rolledback"]

\* rollback: the two assignments to the release.
RolledBack(r, t) ==
  [r EXCEPT !.status = "rolledback", !.rolledBackAt = t]

\* A faulty serializer that leaves the promotion timestamp out.
StringifyReleaseDropsPromotedAt(r) ==
  [k \in (ReleaseKeys \ ({"promotedAt"} \cup {o \in OptionalKeys : r[o] = Undefined})) |-> r[k]]

\* JSON.stringify of a release: keys whose value is undefined are left out.
StringifyRelease(r) ==
  [k \in (ReleaseKeys \ {o \in OptionalKeys : r[o] = Undefined}) |-> r[k]]

\* JSON.parse of a release document: a key that is missing reads as undefined.
ParseRelease(d) ==
  [k \in ReleaseKeys |-> IF k \in DOMAIN d THEN d[k] ELSE Undefined]

\* JSON.stringify(this.state) and JSON.parse(payload) as ReleaseState.
StringifyState(m) ==
  [releases |-> [i \in 1..Len(m) |-> StringifyRelease(m[i])]]

ParseState(doc) ==
  [i \in 1..Len(doc.releases) |-> ParseRelease(doc.releases[i])]

\* ------------------------------------------------------------------- files
JournalFile == <<"releases.json", 0>>
IndexFile == <<"index.json", 0>>
SnapshotFile(id) == <<"delivery/releases", id>>
ReleaseFile(id) == <<"releases", id>>

Files ==
  {JournalFile, IndexFile} \cup {SnapshotFile(i) : i \in Ids}
                           \cup {ReleaseFile(i) : i \in Ids}

Absent == [state |-> "absent"]
Garbled == [state |-> "garbled"]
Data(d) == [state |-> "ok", body |-> d]

Readable(c) == c.state = "ok"

\* Length of the pretty-printed JSON of a release document, up to a constant:
\* the status word, the optional timestamp lines and the pages.
ReleaseDocSize(d) ==
  Len(d.pages) * 200
  + (CASE d.status = "created" -> 7 [] d.status = "promoted" -> 8 [] OTHER -> 10)
  + (IF "promotedAt" \in DOMAIN d THEN 44 ELSE 0)
  + (IF "rolledBackAt" \in DOMAIN d THEN 46 ELSE 0)

RECURSIVE SumSizes(_)
SumSizes(s) ==
  IF s = <<>> THEN 0 ELSE ReleaseDocSize(Head(s)) + SumSizes(Tail(s))

DocSize(f, d) ==
  IF f = JournalFile THEN SumSizes(d.releases)
  ELSE IF f = IndexFile THEN 0
  ELSE ReleaseDocSize(d)

\* The file after a writeFile's data has been written at offset 0.  The file
\* was truncated when this writer opened it, so it holds a whole document now
\* only if another writer's data landed since: a longer document leaves its
\* tail behind the shorter one written over it.
Landed(f, old, new) ==
  IF Readable(old) /\ DocSize(f, new.body) < DocSize(f, old.body)
  THEN Garbled
  ELSE new

\* ------------------------------------------------------------------- state
VARIABLES
  store,      \* the store class the deployment constructed: "journal" or "file"
  loaded,     \* JournalReleaseStore.loaded
  mem,        \* JournalReleaseStore.state.releases
  fs,         \* the files of the store directory and of the delivery directory
  now,        \* the clock new Date() reads
  proc,       \* the requests in flight
  origin,     \* history: origin[id] is release id as create built it
  promoteCalled,  \* history: the ids promote has been called with
  promoteDone,    \* history: the ids whose promote has returned, latest last
  untouched,      \* history: the pages submitted for each release that no
                  \* promote or rollback has been called with since
  createDone,     \* history: the ids create has returned
  restarts,   \* history: how often the process has been restarted
  ops,        \* history: how many requests have arrived
  pageDb,     \* authoring-api: the Page table, the revision of each page's row
  rels,       \* authoring-api: the Release table with each release's ReleasePage rows
  tasks,      \* authoring-api: the calls of submitReleaseToPublication in flight
  remote,     \* the bodies the publication service's POST /v1/releases accepted
  reply,      \* authoring-api: the answer to the latest submit or retry request
  calls       \* history: how many submit, retry and page edit requests were made

\* The variables of the publication service and of the authoring-api.
journalVars ==
  <<store, loaded, mem, fs, now, proc, origin, promoteCalled, promoteDone, untouched,
    createDone, restarts, ops>>

orchVars == <<pageDb, rels, tasks, remote, reply, calls>>

vars == <<journalVars, orchVars>>

\* ------------------------------------------------------- authoring-api data
\* The pages of the Page table, and a well-formed id that names no page.
DbPageIds == {1, 2}
MissingPageId == 3

\* The slots for calls of submitReleaseToPublication in flight.
Tasks == 1..NTasks

\* A call of submitReleaseToPublication: where it is (pc), the route that
\* made it, the release it was called with, the body it posts, and what
\* came back (the remote release's id, or the message of the error caught).
IdleTask ==
  [pc |-> "idle", route |-> "none", releaseId |-> 0, payload |-> <<>>,
   publicationId |-> 0, message |-> "none"]

\* errorMessage: null.
NoMessage == "none"

NoReply == [kind |-> "none"]

NoRef == [mode |-> "none"]
LiveRef == [mode |-> "live"]
CopyRef(r) == [mode |-> "copy", rel |-> r]

\* What a promote request saw as it arrived (history).
NoPre == [alone |-> FALSE]

\* A request: where it is (pc, ph), what was asked (kind, id, pages), the
\* release object it holds, the payload of its file operation, and how it
\* ended (out; at: the file operation that failed).  was is the status the
\* release had when promote or rollback found it (history).
IdleProc ==
  [pc |-> "idle", ph |-> "none", kind |-> "none", id |-> 0, pages |-> <<>>,
   held |-> NoRef, buf |-> Absent, out |-> "none", at |-> "none",
   was |-> "none", pre |-> NoPre]

Init ==
  /\ store \in {"journal", "file"}
  /\ loaded = FALSE
  /\ mem = <<>>
  /\ fs = [f \in Files |-> Absent]
  /\ now = 1
  /\ proc = [p \in Procs |-> IdleProc]
  /\ origin = <<>>
  /\ promoteCalled = {}
  /\ promoteDone = <<>>
  /\ untouched = <<>>
  /\ createDone = {}
  /\ restarts = 0
  /\ ops = 0
  /\ pageDb = [i \in DbPageIds |-> 0]
  /\ rels = <<>>
  /\ tasks = [t \in Tasks |-> IdleTask]
  /\ remote = <<>>
  /\ reply = NoReply
  /\ calls = 0

AllIdle == \A p \in Procs : proc[p].pc = "idle"

\* this.state.releases.find((r) => r.id === id): its position, 0 when none.
IndexOf(m, id) ==
  IF \E i \in 1..Len(m) : m[i].id = id
  THEN CHOOSE i \in 1..Len(m) : m[i].id = id /\ \A j \in 1..(i - 1) : m[j].id # id
  ELSE 0

\* The release object a request holds: the one in this.state while that is
\* the array it was found in, else the object of the array since replaced.
Deref(pr) ==
  IF pr.held.mode = "live" THEN mem[IndexOf(mem, pr.id)] ELSE pr.held.rel

Detach(pr) ==
  IF pr.held.mode = "live" THEN [pr EXCEPT !.held = CopyRef(Deref(pr))] ELSE pr

Done(pr, out) == [pr EXCEPT !.pc = "done", !.ph = "none", !.out = out, !.buf = Absent]

Issue(pr, stage, payload) ==
  [pr EXCEPT !.pc = stage, !.ph = "issued", !.buf = Data(payload)]

\* s with id moved to its end.
Latest(s, id) == SelectSeq(s, LAMBDA x : x # id) \o <<id>>

\* ------------------------------------------------------------- Delivery API
\* What the readers answer when there is nothing to return (null).
Null == [null |-> TRUE]

\* readReleaseIndex: the activeReleaseId of delivery/index.json, 0 for null.
ReadReleaseIndex ==
  IF Readable(fs[IndexFile]) THEN fs[IndexFile].body.activeReleaseId ELSE 0

\* readReleaseFromDelivery: the parsed snapshot file of releaseId, or null.
ReadReleaseFromDelivery(releaseId) ==
  IF releaseId \in Ids /\ Readable(fs[SnapshotFile(releaseId)])
  THEN fs[SnapshotFile(releaseId)].body
  ELSE Null

\* A faulty resolver that ignores the id it is given.
ResolveReleaseIgnoresId(releaseId) ==
  IF ReadReleaseIndex = 0 THEN Null
  ELSE ReadReleaseFromDelivery(ReadReleaseIndex)

\* resolveRelease(config, releaseId): releaseId 0 is the omitted argument.
ResolveRelease(releaseId) ==
  IF releaseId # 0
  THEN ReadReleaseFromDelivery(releaseId)
  ELSE IF ReadReleaseIndex = 0 THEN Null
       ELSE ReadReleaseFromDelivery(ReadReleaseIndex)

\* crypto.randomUUID(): an id no release has had.
FreshId == Len(origin) + 1

\* ------------------------------------------------- JournalReleaseStore body
\* The code of create, read, promote and rollback that follows
\* `await this.ensureLoaded()`, up to the next file operation, on the
\* releases array m at time t.
BodyMem(pr, m, t) ==
  CASE pr.kind = "create" -> Append(m, NewRelease(FreshId, t, pr.pages))
    [] pr.kind = "promote" /\ IndexOf(m, pr.id) # 0 ->
         [m EXCEPT ![IndexOf(m, pr.id)] = Promoted(@, t)]
    [] pr.kind = "rollback" /\ IndexOf(m, pr.id) # 0 ->
         [m EXCEPT ![IndexOf(m, pr.id)] = RolledBack(@, t)]
    [] OTHER -> m

\* A faulty body whose promote turns an already promoted release away.
BodyProcRejectsPromoted(pr, m, t) ==
  CASE pr.kind = "create" ->
         Issue([pr EXCEPT !.id = FreshId, !.held = LiveRef], "persist",
               StringifyState(BodyMem(pr, m, t)))
    [] pr.kind = "promote" /\ IndexOf(m, pr.id) # 0
         /\ m[IndexOf(m, pr.id)].status = "promoted" ->
         Done([pr EXCEPT !.was = "promoted"], "conflict")
    [] pr.kind \in {"promote", "rollback"} /\ IndexOf(m, pr.id) # 0 ->
         Issue([pr EXCEPT !.held = LiveRef, !.was = m[IndexOf(m, pr.id)].status],
               "persist", StringifyState(BodyMem(pr, m, t)))
    [] pr.kind = "read" /\ IndexOf(m, pr.id) # 0 ->
         Done([pr EXCEPT !.held = LiveRef], "ok")
    [] OTHER -> Done(pr, "notfound")

BodyProc(pr, m, t) ==
  CASE pr.kind = "create" ->
         Issue([pr EXCEPT !.id = FreshId, !.held = LiveRef], "persist",
               StringifyState(BodyMem(pr, m, t)))
    [] pr.kind \in {"promote", "rollback"} /\ IndexOf(m, pr.id) # 0 ->
         Issue([pr EXCEPT !.held = LiveRef, !.was = m[IndexOf(m, pr.id)].status],
               "persist", StringifyState(BodyMem(pr, m, t)))
    [] pr.kind = "read" /\ IndexOf(m, pr.id) # 0 ->
         Done([pr EXCEPT !.held = LiveRef], "ok")
    [] OTHER -> Done(pr, "notfound")

\* History: release id has just been created from pages.
Submitted(id, pages) ==
  [i \in DOMAIN untouched \cup {id} |-> IF i = id THEN pages ELSE untouched[i]]

\* History: a call of that kind with id has been made.
Touched(kind, id) ==
  IF kind \in {"promote", "rollback"}
  THEN [i \in DOMAIN untouched \ {id} |-> untouched[i]]
  ELSE untouched

\* Request pr in slot p goes on after ensureLoaded, on the array m at time t;
\* `replaced` says that m is a new array assigned to this.state in this step.
Continue(p, pr, m, t, replaced) ==
  /\ mem' = BodyMem(pr, m, t)
  /\ proc' = [q \in Procs |->
                IF q = p THEN BodyProc(pr, m, t)
                ELSE IF replaced THEN Detach(proc[q]) ELSE proc[q]]
  /\ origin' = IF pr.kind = "create"
               THEN Append(origin, NewRelease(FreshId, t, pr.pages))
               ELSE origin
  /\ untouched' = IF pr.kind = "create"
                  THEN Submitted(FreshId, pr.pages)
                  ELSE Touched(pr.kind, pr.id)

\* Creates that have not drawn their id yet.
PendingCreates ==
  Cardinality({q \in Procs : proc[q].kind = "create" /\ proc[q].id = 0})

\* A request arrives and is given to handler slot p: the free slot of the
\* lowest number (the slots are interchangeable).  The clock has gone on
\* since the request before it, or has not.
Arrives(p, kind, id) ==
  /\ proc[p].pc = "idle"
  /\ \A q \in 1..(p - 1) : proc[q].pc # "idle"
  /\ kind = "create" => Len(origin) + PendingCreates < MaxReleases
  /\ ops' = ops + 1
  /\ \E dt \in {0, 1} : now + dt <= MaxClock /\ now' = now + dt
  /\ promoteCalled' = IF kind = "promote" THEN promoteCalled \cup {id} ELSE promoteCalled
  /\ UNCHANGED <<store, fs, promoteDone, createDone, restarts>>
  /\ UNCHANGED orchVars

\* History: the pointer and the answer of resolve() as a promote arrives,
\* and whether it arrived with no other request in flight.
Seen(kind) ==
  IF kind = "promote"
  THEN [alone |-> AllIdle, ops |-> ops', index |-> fs[IndexFile],
        resolved |-> ResolveRelease(0)]
  ELSE NoPre

\* A request arrives at the JournalReleaseStore.
JStart(p, kind, id, pages) ==
  /\ store = "journal"
  /\ Arrives(p, kind, id)
  /\ LET pr == [IdleProc EXCEPT !.kind = kind, !.id = id, !.pages = pages,
                                !.pre = Seen(kind)] IN
       IF loaded
       THEN Continue(p, pr, mem, now', FALSE)
       ELSE /\ proc' = [proc EXCEPT ![p] = [pr EXCEPT !.pc = "load_read"]]
            /\ untouched' = Touched(kind, id)
            /\ UNCHANGED <<mem, origin>>
  /\ UNCHANGED loaded

JCreate(p) == \E pages \in PageLists : JStart(p, "create", 0, pages)
JRead(p) == \E id \in Ids : JStart(p, "read", id, <<>>)
JPromote(p) == \E id \in Ids : JStart(p, "promote", id, <<>>)
JRollback(p) == \E id \in Ids : JStart(p, "rollback", id, <<>>)

\* ensureLoaded: fsp.readFile(this.storeFile) reads the journal file.
LoadRead(p) ==
  /\ proc[p].pc = "load_read"
  /\ proc' = [proc EXCEPT ![p] = [@ EXCEPT !.pc = "load_cb", !.buf = fs[JournalFile]]]
  /\ UNCHANGED <<store, loaded, mem, fs, now, origin, untouched,
               promoteCalled, promoteDone, restarts, ops, createDone>>
  /\ UNCHANGED orchVars

\* ensureLoaded: readFile rejects for another reason than a missing file.
LoadReadFails(p) ==
  /\ proc[p].pc = "load_read"
  /\ proc' = [proc EXCEPT ![p] = [@ EXCEPT !.pc = "load_cb", !.buf = Garbled]]
  /\ UNCHANGED <<store, loaded, mem, fs, now, origin, untouched,
               promoteCalled, promoteDone, restarts, ops, createDone>>
  /\ UNCHANGED orchVars

\* ensureLoaded: the try block went through; this.state is the parsed file.
LoadParsed(p) ==
  /\ proc[p].pc = "load_cb"
  /\ Readable(proc[p].buf)
  /\ loaded' = TRUE
  /\ Continue(p, [proc[p] EXCEPT !.buf = Absent], ParseState(proc[p].buf.body), now, TRUE)
  /\ UNCHANGED <<store, fs, now, promoteCalled, promoteDone, restarts, ops, createDone>>
  /\ UNCHANGED orchVars

\* ensureLoaded: readFile or JSON.parse threw; the catch block awaits mkdir.
LoadCaught(p) ==
  /\ proc[p].pc = "load_cb"
  /\ ~Readable(proc[p].buf)
  /\ proc' = [proc EXCEPT ![p] = [@ EXCEPT !.pc = "load_mkdir", !.buf = Absent]]
  /\ UNCHANGED <<store, loaded, mem, fs, now, origin, untouched,
               promoteCalled, promoteDone, restarts, ops, createDone>>
  /\ UNCHANGED orchVars

\* ensureLoaded: the catch block resets this.state and calls persist.
LoadReset(p) ==
  /\ proc[p].pc = "load_mkdir"
  /\ mem' = <<>>
  /\ proc' = [q \in Procs |->
                IF q = p THEN Issue(proc[p], "ensure_persist", StringifyState(<<>>))
                ELSE Detach(proc[q])]
  /\ UNCHANGED <<store, loaded, fs, now, origin, untouched,
               promoteCalled, promoteDone, restarts, ops, createDone>>
  /\ UNCHANGED orchVars

\* ---------------------------------------------------------- FileReleaseStore
\* create: the release is built and writeRelease is called.
FCreate(p) ==
  /\ store = "file"
  /\ Arrives(p, "create", 0)
  /\ \E pages \in PageLists :
       LET r == NewRelease(FreshId, now', pages) IN
         /\ proc' = [proc EXCEPT ![p] =
                       Issue([IdleProc EXCEPT !.kind = "create", !.id = FreshId,
                                              !.pages = pages, !.held = CopyRef(r)],
                             "write_release", StringifyRelease(r))]
         /\ origin' = Append(origin, r)
         /\ untouched' = Submitted(FreshId, pages)
  /\ UNCHANGED <<loaded, mem>>

\* read, promote and rollback begin with this.read(id): readFile is called.
FStart(p, kind, id) ==
  /\ store = "file"
  /\ Arrives(p, kind, id)
  /\ proc' = [proc EXCEPT ![p] = [IdleProc EXCEPT !.kind = kind, !.id = id,
                                                    !.pc = "read_file", !.pre = Seen(kind)]]
  /\ untouched' = Touched(kind, id)
  /\ UNCHANGED <<loaded, mem, origin>>

FRead(p) == \E id \in Ids : FStart(p, "read", id)
FPromote(p) == \E id \in Ids : FStart(p, "promote", id)
FRollback(p) == \E id \in Ids : FStart(p, "rollback", id)

\* read: fsp.readFile(filePath) reads the release file.
FileRead(p) ==
  /\ proc[p].pc = "read_file"
  /\ proc' = [proc EXCEPT ![p] = [@ EXCEPT !.pc = "read_cb", !.buf = fs[ReleaseFile(proc[p].id)]]]
  /\ UNCHANGED <<store, loaded, mem, fs, now, origin, untouched,
               promoteCalled, promoteDone, restarts, ops, createDone>>
  /\ UNCHANGED orchVars

\* read returned (or threw); promote and rollback build their copy of the
\* release and call writeRelease.
FileReadDone(p) ==
  /\ proc[p].pc = "read_cb"
  /\ LET pr == proc[p]
         r == ParseRelease(pr.buf.body)
         w == IF pr.kind = "promote" THEN Promoted(r, now) ELSE RolledBack(r, now)
     IN proc' = [proc EXCEPT ![p] =
                   IF pr.buf = Absent THEN Done(pr, "notfound")
                   ELSE IF ~Readable(pr.buf) THEN Done(pr, "ioerror")
                   ELSE IF pr.kind = "read" THEN Done([pr EXCEPT !.held = CopyRef(r)], "ok")
                   ELSE Issue([pr EXCEPT !.held = CopyRef(w), !.was = r.status],
                              "write_release", StringifyRelease(w))]
  /\ UNCHANGED <<store, loaded, mem, fs, now, origin, untouched,
               promoteCalled, promoteDone, restarts, ops, createDone>>
  /\ UNCHANGED orchVars

\* ------------------------------------------------------------- file writes
WriteStages == {"ensure_persist", "persist", "snapshot", "index", "write_release"}

Target(pr) ==
  CASE pr.pc \in {"ensure_persist", "persist"} -> JournalFile
    [] pr.pc = "snapshot" -> SnapshotFile(pr.id)
    [] pr.pc = "index" -> IndexFile
    [] OTHER -> ReleaseFile(pr.id)

\* A faulty persistToDelivery that writes the index file first.
DeliveryWritesSwapped == <<"index", "snapshot">>

\* persistToDelivery writes the snapshot file, then the index file.
DeliveryWrites == <<"snapshot", "index">>

\* A faulty persistToDelivery whose snapshot holds the first page only.
DeliveryPayloadFirstPage(stage, pr) ==
  IF stage = "snapshot"
  THEN StringifyRelease([Deref(pr) EXCEPT !.pages = <<Head(@)>>])
  ELSE [activeReleaseId |-> pr.id, updatedAt |-> now]

\* The payload persistToDelivery hands to writeFile for a file.
DeliveryPayload(stage, pr) ==
  IF stage = "snapshot"
  THEN StringifyRelease(Deref(pr))
  ELSE [activeReleaseId |-> pr.id, updatedAt |-> now]

\* writeFile opens its file: flag 'w' truncates it.
WriteOpen(p) ==
  /\ proc[p].pc \in WriteStages
  /\ proc[p].ph = "issued"
  /\ fs' = [fs EXCEPT ![Target(proc[p])] = Garbled]
  /\ proc' = [proc EXCEPT ![p] = [@ EXCEPT !.ph = "opened"]]
  /\ UNCHANGED <<store, loaded, mem, now, origin, untouched,
               promoteCalled, promoteDone, restarts, ops, createDone>>
  /\ UNCHANGED orchVars

\* writeFile rejects: before the open the file is as it was, after the open
\* it stays truncated.  The error propagates out of the store's method.
WriteFails(p) ==
  /\ proc[p].pc \in WriteStages
  /\ proc[p].ph \in {"issued", "opened"}
  /\ proc' = [proc EXCEPT ![p] = Done([@ EXCEPT !.at = proc[p].pc], "ioerror")]
  /\ UNCHANGED <<store, loaded, mem, fs, now, origin, untouched,
               promoteCalled, promoteDone, restarts, ops, createDone>>
  /\ UNCHANGED orchVars

\* A faulty store whose rollback publishes to the delivery directory too.
AfterWriteAlwaysPublishes(pr) ==
  CASE pr.pc \in {"persist", "write_release"} ->
         IF pr.kind \in {"promote", "rollback"}
         THEN [pr EXCEPT !.pc = "mkdir", !.ph = "none", !.buf = Absent]
         ELSE Done(pr, "ok")
    [] pr.pc = DeliveryWrites[1] ->
         Issue(pr, DeliveryWrites[2], DeliveryPayload(DeliveryWrites[2], pr))
    [] OTHER -> Done(pr, "ok")

\* What follows the await of a write that went through.
AfterWrite(pr) ==
  CASE pr.pc \in {"persist", "write_release"} ->
         IF pr.kind = "promote"
         THEN [pr EXCEPT !.pc = "mkdir", !.ph = "none", !.buf = Absent]
         ELSE Done(pr, "ok")
    [] pr.pc = DeliveryWrites[1] ->
         Issue(pr, DeliveryWrites[2], DeliveryPayload(DeliveryWrites[2], pr))
    [] OTHER -> Done(pr, "ok")

\* writeFile resolves: the payload is in the file.
WriteDone(p) ==
  /\ proc[p].pc \in WriteStages \ {"ensure_persist"}
  /\ proc[p].ph = "opened"
  /\ fs' = [fs EXCEPT ![Target(proc[p])] = Landed(Target(proc[p]), @, proc[p].buf)]
  /\ proc' = [proc EXCEPT ![p] = AfterWrite(@)]
  /\ promoteDone' = IF proc[p].kind = "promote" /\ proc'[p].pc = "done"
                     THEN Latest(promoteDone, proc[p].id)
                     ELSE promoteDone
  /\ createDone' = IF proc[p].kind = "create" /\ proc'[p].pc = "done"
                    THEN createDone \cup {proc[p].id}
                    ELSE createDone
  /\ UNCHANGED <<store, loaded, mem, now, origin, untouched,
               promoteCalled, restarts, ops>>
  /\ UNCHANGED orchVars

\* ensureLoaded: the catch block's persist resolved; loaded is set and the
\* calling method goes on.
LoadPersisted(p) ==
  /\ proc[p].pc = "ensure_persist"
  /\ proc[p].ph = "opened"
  /\ fs' = [fs EXCEPT ![JournalFile] = Landed(JournalFile, @, proc[p].buf)]
  /\ loaded' = TRUE
  /\ Continue(p, [proc[p] EXCEPT !.buf = Absent], mem, now, FALSE)
  /\ UNCHANGED <<store, now, promoteCalled, promoteDone, restarts, ops, createDone>>
  /\ UNCHANGED orchVars

\* persistToDelivery: mkdir resolved; the first file is written.
MkdirDone(p) ==
  /\ proc[p].pc = "mkdir"
  /\ proc' = [proc EXCEPT ![p] =
                Issue(@, DeliveryWrites[1], DeliveryPayload(DeliveryWrites[1], @))]
  /\ UNCHANGED <<store, loaded, mem, fs, now, origin, untouched,
               promoteCalled, promoteDone, restarts, ops, createDone>>
  /\ UNCHANGED orchVars

\* The handler has answered; the request is over.
Return(p) ==
  /\ proc[p].pc = "done"
  /\ proc' = [proc EXCEPT ![p] = IdleProc]
  /\ UNCHANGED <<store, loaded, mem, fs, now, origin, untouched,
               promoteCalled, promoteDone, restarts, ops, createDone>>
  /\ UNCHANGED orchVars

\* The service process stops (a crash or a redeploy) and is started again:
\* the store object is constructed anew, the files are as they were left.
Restart ==
  /\ restarts < MaxRestarts
  /\ restarts' = restarts + 1
  /\ loaded' = FALSE
  /\ mem' = <<>>
  /\ proc' = [p \in Procs |-> IdleProc]
  /\ UNCHANGED <<store, fs, now, origin, untouched, promoteCalled, promoteDone, ops, createDone>>
  /\ UNCHANGED orchVars

\* ------------------------------------------------------------ specifications
\* The service as deployed: requests overlap, file operations can fail, the
\* process can be restarted at any moment.
Next ==
  \/ \E p \in Procs : ops < MaxOps /\ JCreate(p)
  \/ \E p \in Procs : ops < MaxOps /\ JRead(p)
  \/ \E p \in Procs : ops < MaxOps /\ JPromote(p)
  \/ \E p \in Procs : ops < MaxOps /\ JRollback(p)
  \/ \E p \in Procs : ops < MaxOps /\ FCreate(p)
  \/ \E p \in Procs : ops < MaxOps /\ FRead(p)
  \/ \E p \in Procs : ops < MaxOps /\ FPromote(p)
  \/ \E p \in Procs : ops < MaxOps /\ FRollback(p)
  \/ \E p \in Procs : LoadRead(p)
  \/ \E p \in Procs : LoadReadFails(p)
  \/ \E p \in Procs : LoadParsed(p)
  \/ \E p \in Procs : LoadCaught(p)
  \/ \E p \in Procs : LoadReset(p)
  \/ \E p \in Procs : LoadPersisted(p)
  \/ \E p \in Procs : FileRead(p)
  \/ \E p \in Procs : FileReadDone(p)
  \/ \E p \in Procs : WriteOpen(p)
  \/ \E p \in Procs : WriteFails(p)
  \/ \E p \in Procs : WriteDone(p)
  \/ \E p \in Procs : MkdirDone(p)
  \/ \E p \in Procs : Return(p)
  \/ Restart

Spec == Init /\ [][Next]_vars

\* The service used by one caller that awaits each call before the next, on
\* storage that does not fail; restarts happen between calls.
SeqNext ==
  \/ \E p \in Procs : ops < MaxSeqOps /\ AllIdle /\ JCreate(p)
  \/ \E p \in Procs : ops < MaxSeqOps /\ AllIdle /\ JRead(p)
  \/ \E p \in Procs : ops < MaxSeqOps /\ AllIdle /\ JPromote(p)
  \/ \E p \in Procs : ops < MaxSeqOps /\ AllIdle /\ JRollback(p)
  \/ \E p \in Procs : ops < MaxSeqOps /\ AllIdle /\ FCreate(p)
  \/ \E p \in Procs : ops < MaxSeqOps /\ AllIdle /\ FRead(p)
  \/ \E p \in Procs : ops < MaxSeqOps /\ AllIdle /\ FPromote(p)
  \/ \E p \in Procs : ops < MaxSeqOps /\ AllIdle /\ FRollback(p)
  \/ \E p \in Procs : LoadRead(p)
  \/ \E p \in Procs : LoadParsed(p)
  \/ \E p \in Procs : LoadCaught(p)
  \/ \E p \in Procs : LoadReset(p)
  \/ \E p \in Procs : LoadPersisted(p)
  \/ \E p \in Procs : FileRead(p)
  \/ \E p \in Procs : FileReadDone(p)
  \/ \E p \in Procs : WriteOpen(p)
  \/ \E p \in Procs : WriteDone(p)
  \/ \E p \in Procs : MkdirDone(p)
  \/ \E p \in Procs : Return(p)
  \/ AllIdle /\ Restart

SeqSpec == Init /\ [][SeqNext]_vars

\* The service on storage that does not fail: requests overlap, and the
\* process is restarted only between requests.
RaceNext ==
  \/ \E p \in Procs : ops < MaxOps /\ JCreate(p)
  \/ \E p \in Procs : ops < MaxOps /\ JRead(p)
  \/ \E p \in Procs : ops < MaxOps /\ JPromote(p)
  \/ \E p \in Procs : ops < MaxOps /\ JRollback(p)
  \/ \E p \in Procs : ops < MaxOps /\ FCreate(p)
  \/ \E p \in Procs : ops < MaxOps /\ FRead(p)
  \/ \E p \in Procs : ops < MaxOps /\ FPromote(p)
  \/ \E p \in Procs : ops < MaxOps /\ FRollback(p)
  \/ \E p \in Procs : LoadRead(p)
  \/ \E p \in Procs : LoadParsed(p)
  \/ \E p \in Procs : LoadCaught(p)
  \/ \E p \in Procs : LoadReset(p)
  \/ \E p \in Procs : LoadPersisted(p)
  \/ \E p \in Procs : FileRead(p)
  \/ \E p \in Procs : FileReadDone(p)
  \/ \E p \in Procs : WriteOpen(p)
  \/ \E p \in Procs : WriteDone(p)
  \/ \E p \in Procs : MkdirDone(p)
  \/ \E p \in Procs : Return(p)
  \/ AllIdle /\ Restart

RaceSpec == Init /\ [][RaceNext]_vars

\* ------------------------------------------------------------------ claims
\* The journal's record of release id: the release in this.state.releases
\* (JournalReleaseStore) or in its release file (FileReleaseStore).
NoRelease == [id |-> 0]

JournalRelease(id) ==
  IF store = "journal"
  THEN IF IndexOf(mem, id) # 0 THEN mem[IndexOf(mem, id)] ELSE NoRelease
  ELSE IF Readable(fs[ReleaseFile(id)])
       THEN ParseRelease(fs[ReleaseFile(id)].body)
       ELSE NoRelease

JournalStatus(id) ==
  IF JournalRelease(id) = NoRelease THEN "none" ELSE JournalRelease(id).status

\* A promote is between its arrival and its return.
PromoteInFlight ==
  \E p \in Procs : proc[p].kind = "promote" /\ proc[p].pc # "done"

\* The id of the promote that returned last.
LastPromoted == promoteDone[Len(promoteDone)]

C2_EarlierSnapshotKept ==
  (~PromoteInFlight /\ Len(promoteDone) >= 2) =>
    /\ ResolveRelease(0) # Null
    /\ ResolveRelease(0).id = LastPromoted
    /\ ResolveRelease(0).pages = origin[LastPromoted].pages
    /\ \A k \in 1..(Len(promoteDone) - 1) :
         /\ ResolveRelease(promoteDone[k]) # Null
         /\ ResolveRelease(promoteDone[k]).id = promoteDone[k]
         /\ ResolveRelease(promoteDone[k]).pages = origin[promoteDone[k]].pages

\* Two releases of different pages have been promoted one after the other.
C2_Witness ==
  /\ ~PromoteInFlight
  /\ Len(promoteDone) >= 2
  /\ origin[promoteDone[1]].pages # origin[LastPromoted].pages

\* C3: a promote that finds its release, already promoted or not, returns
\* the release (it is not rejected) with status promoted; the journal has the
\* release as promoted with the pages it was created with, and the pointer
\* names it when the call returns.
C3_PromoteIdempotent ==
  \A p \in Procs :
    (proc[p].kind = "promote" /\ proc[p].pc = "done" /\ proc[p].was # "none") =>
      /\ proc[p].out = "ok"
      /\ Deref(proc[p]).status = "promoted"
      /\ JournalStatus(proc[p].id) = "promoted"
      /\ JournalRelease(proc[p].id).pages = origin[proc[p].id].pages
      /\ ReadReleaseIndex = proc[p].id

\* A promote of a release that was promoted already has returned.
C3_Witness ==
  \E p \in Procs :
    /\ proc[p].kind = "promote"
    /\ proc[p].pc = "done"
    /\ proc[p].was = "promoted"
    /\ proc[p].out = "ok"

\* C4: after promote(id) has returned and until another promote begins,
\* resolve() and resolve(id) answer the same release: id's pages as created,
\* with id = id and status promoted.
C4_ResolveAfterPromote ==
  (~PromoteInFlight /\ promoteDone # <<>>) =>
    /\ ResolveRelease(0) # Null
    /\ ResolveRelease(0) = ResolveRelease(LastPromoted)
    /\ ResolveRelease(0).id = LastPromoted
    /\ ResolveRelease(0).status = "promoted"
    /\ ResolveRelease(0).pages = origin[LastPromoted].pages

\* The release promoted last has since been rolled back in the journal.
C4_Witness ==
  /\ ~PromoteInFlight
  /\ promoteDone # <<>>
  /\ JournalStatus(LastPromoted) = "rolledback"

\* A step of the rollback request in slot p.
RollbackStep(p) ==
  /\ proc'[p].kind = "rollback"
  /\ proc[p].pc # "done"
  /\ <<proc'[p].pc, proc'[p].ph>> # <<proc[p].pc, proc[p].ph>>

\* C5: no step of a rollback(id) changes the pointer, a delivery snapshot or
\* the answer of resolve(); a release of the journal other than id stays as
\* it is, and of id only status and rolledBackAt change.
C5_RollbackFrame ==
  [][\A p \in Procs : \A id \in Ids :
       (RollbackStep(p) /\ proc'[p].id = id) =>
         /\ fs'[IndexFile] = fs[IndexFile]
         /\ \A i \in Ids : fs'[SnapshotFile(i)] = fs[SnapshotFile(i)]
         /\ ResolveRelease(0)' = ResolveRelease(0)
         /\ \A i \in Ids \ {id} :
              JournalRelease(i) # NoRelease => JournalRelease(i)' = JournalRelease(i)
         /\ (JournalRelease(id) # NoRelease /\ JournalRelease(id)' # NoRelease) =>
              \A k \in {"id", "createdAt", "promotedAt", "pages"} :
                JournalRelease(id)'[k] = JournalRelease(id)[k]
    ]_vars

\* C6: when the snapshot write of a promote fails, and no other request ran
\* beside that promote, the pointer is as the promote found it and resolve()
\* answers what it answered before the promote.
C6_FailedSnapshotWriteInvisible ==
  \A p \in Procs :
    (/\ proc[p].kind = "promote"
     /\ proc[p].pc = "done"
     /\ proc[p].out = "ioerror"
     /\ proc[p].at = "snapshot"
     /\ proc[p].pre.alone
     /\ proc[p].pre.ops = ops) =>
      /\ fs[IndexFile] = proc[p].pre.index
      /\ ResolveRelease(0) = proc[p].pre.resolved

\* The step in which the promote or rollback in slot p assigns the status.
Assigns(p) == proc[p].was = "none" /\ proc'[p].was # "none"

\* The status of the release that request holds after the step.
StatusAssigned(p) ==
  IF proc'[p].held.mode = "live"
  THEN mem'[IndexOf(mem', proc'[p].id)].status
  ELSE proc'[p].held.rel.status

\* C7 as the specification states it: every status assignment of a promote
\* or rollback is one of created->promoted, promoted->rolledback,
\* rolledback->promoted, promoted->promoted.
C7_FourTransitions ==
  [][\A p \in Procs :
       Assigns(p) =>
         <<proc'[p].was, StatusAssigned(p)>> \in
           {<<"created", "promoted">>, <<"promoted", "rolledback">>,
            <<"rolledback", "promoted">>, <<"promoted", "promoted">>}]_vars

\* C7 as the code has it: every status assignment of a promote or rollback is
\* one of created->promoted, promoted->promoted, rolledback->promoted,
\* created->rolledback, promoted->rolledback, rolledback->rolledback.
C7_SixTransitions ==
  [][\A p \in Procs :
       Assigns(p) =>
         <<proc'[p].was, StatusAssigned(p)>> \in
           {<<"created", "promoted">>, <<"promoted", "promoted">>,
            <<"rolledback", "promoted">>, <<"created", "rolledback">>,
            <<"promoted", "rolledback">>, <<"rolledback", "rolledback">>}]_vars

\* A rollback of a release that had never been promoted has returned.
C7_Witness ==
  \E p \in Procs :
    /\ proc[p].kind = "rollback"
    /\ proc[p].pc = "done"
    /\ proc[p].out = "ok"
    /\ proc[p].was = "created"
    /\ JournalStatus(proc[p].id) = "rolledback"

\* C8: a release whose status in the journal is promoted or rolledback does
\* not have status created in the next state, whatever step is taken.
C8_NeverCreatedAgain ==
  [][\A id \in Ids :
       JournalStatus(id) \in {"promoted", "rolledback"} =>
         JournalStatus(id)' # "created"]_vars

\* C9: in every reachable state the pointer is absent or names a release
\* that exists and that promote has been called with, and the index file
\* changes in no step but a promote's write of it (so not in a step of create,
\* rollback or a read).
C9_PointerSetByPromoteOnly ==
  /\ [](Readable(fs[IndexFile]) =>
          /\ fs[IndexFile].body.activeReleaseId \in promoteCalled
          /\ fs[IndexFile].body.activeReleaseId \in 1..Len(origin))
  /\ [][fs'[IndexFile] # fs[IndexFile] =>
          \E p \in Procs :
            /\ proc[p].kind = "promote"
            /\ proc[p].pc = "index"
            /\ proc'[p] # proc[p]]_vars

\* A rollback of the release the pointer names has returned.
C9_Witness ==
  /\ Readable(fs[IndexFile])
  /\ \E p \in Procs :
       /\ proc[p].kind = "rollback"
       /\ proc[p].pc = "done"
       /\ proc[p].out = "ok"
       /\ proc[p].id = fs[IndexFile].body.activeReleaseId

\* r has the id, createdAt and pages of a release as create built it.
AsCreated(r) ==
  /\ r.id \in 1..Len(origin)
  /\ r.createdAt = origin[r.id].createdAt
  /\ r.pages = origin[r.id].pages

\* C10: every release of the journal, in memory and on disk, has the id,
\* createdAt and pages it was created with, and every delivery snapshot has
\* the pages its release was created with, in their order.
C10_IdentityAndPagesKept ==
  /\ \A i \in 1..Len(mem) : AsCreated(mem[i])
  /\ Readable(fs[JournalFile]) =>
       \A i \in 1..Len(fs[JournalFile].body.releases) :
         AsCreated(fs[JournalFile].body.releases[i])
  /\ \A id \in Ids :
       Readable(fs[ReleaseFile(id)]) =>
         fs[ReleaseFile(id)].body.id = id /\ AsCreated(fs[ReleaseFile(id)].body)
  /\ \A id \in Ids :
       Readable(fs[SnapshotFile(id)]) =>
         fs[SnapshotFile(id)].body.id = id /\ AsCreated(fs[SnapshotFile(id)].body)

\* A release of two pages has been promoted and then rolled back.
C10_Witness ==
  \E id \in Ids :
    /\ Readable(fs[SnapshotFile(id)])
    /\ Len(fs[SnapshotFile(id)].body.pages) = 2
    /\ JournalStatus(id) = "rolledback"
    /\ JournalRelease(id).promotedAt # Undefined

\* C11: a read of the id a create returned, with no promote or rollback
\* called on it in between and the calls made one after the other, returns
\* the release with status created, neither timestamp, and the submitted
\* pages in the submitted order.
C11_CreateThenRead ==
  \A p \in Procs :
    (/\ proc[p].kind = "read"
     /\ proc[p].pc = "done"
     /\ proc[p].id \in createDone
     /\ proc[p].id \in DOMAIN untouched) =>
      /\ proc[p].out = "ok"
      /\ Deref(proc[p]).id = proc[p].id
      /\ Deref(proc[p]).status = "created"
      /\ Deref(proc[p]).promotedAt = Undefined
      /\ Deref(proc[p]).rolledBackAt = Undefined
      /\ Deref(proc[p]).pages = untouched[proc[p].id]

\* A release of two pages has been created and read back.
C11_Witness ==
  \E p \in Procs :
    /\ proc[p].kind = "read"
    /\ proc[p].pc = "done"
    /\ proc[p].out = "ok"
    /\ proc[p].id \in createDone
    /\ proc[p].id \in DOMAIN untouched
    /\ Len(untouched[proc[p].id]) = 2

\* The durable journal's records of release id: the entries of the journal
\* file with that id (JournalReleaseStore) or the release file of that id
\* (FileReleaseStore).
DurableRecords(id) ==
  IF store = "journal"
  THEN IF Readable(fs[JournalFile])
       THEN LET rs == fs[JournalFile].body.releases
            IN [i \in {j \in 1..Len(rs) : rs[j].id = id} |-> ParseRelease(rs[i])]
       ELSE <<>>
  ELSE IF Readable(fs[ReleaseFile(id)])
       THEN [i \in {1} |-> ParseRelease(fs[ReleaseFile(id)].body)]
       ELSE <<>>

\* C12: when overlapping create, promote and rollback calls have all
\* returned, none of them failed by a storage error, the durable journal has
\* every release a create returned exactly once, and a release whose promote
\* returned is recorded with a promotion timestamp and not as created.
C12_NoLostUpdate ==
  AllIdle =>
    \A id \in createDone :
      /\ Cardinality(DOMAIN DurableRecords(id)) = 1
      /\ \A i \in DOMAIN DurableRecords(id) :
           (\E k \in 1..Len(promoteDone) : promoteDone[k] = id) =>
             /\ DurableRecords(id)[i].status # "created"
             /\ DurableRecords(id)[i].promotedAt # Undefined

\* Request p is writing the journal (releases.json, or the release file of
\* its release) for a create, promote or rollback, and no other request is
\* writing that file.
JournalWrite(p) ==
  /\ proc[p].pc \in {"persist", "write_release"}
  /\ \A q \in Procs \ {p} :
       proc[q].pc \in WriteStages => Target(proc[q]) # Target(proc[p])

\* C13: whenever the process stops during the journal write of a create,
\* promote or rollback, the journal file the restart finds is a whole
\* document: the one committed before the write or the one being written.
\* A restart leaves the files as they are, so every step of the write has
\* to leave the file holding what it held before or the new document.
C13_CrashLeavesJournalWhole ==
  [][\A p \in Procs :
       (JournalWrite(p) /\ proc'[p] # proc[p]) =>
         \/ fs'[Target(proc[p])] = fs[Target(proc[p])]
         \/ fs'[Target(proc[p])] = proc[p].buf]_vars

\* The journal has release id: read(id) finds it and list() includes it.
\* JournalReleaseStore looks in this.state.releases, which the first call
\* after a start loads from releases.json; FileReleaseStore reads the
\* release file.
JournalHas(id) ==
  IF store = "journal" /\ loaded
  THEN IndexOf(mem, id) # 0
  ELSE DOMAIN DurableRecords(id) # {}

\* C14: between requests, whatever operations, restarts and journal loads
\* came before (a load that could not read or parse the journal file
\* included), every release a create has returned is in the journal.
C14_NeverRemoved ==
  AllIdle => \A id \in createDone : JournalHas(id)

\* What a store constructed anew loads from releases.json: the journal a
\* restart yields.
FreshLoad ==
  IF Readable(fs[JournalFile]) THEN ParseState(fs[JournalFile].body) ELSE <<>>

\* C15: when the JournalReleaseStore is restarted after its create, promote
\* and rollback calls have returned, the journal a fresh load yields after
\* the restart is the journal the store held before it, with the same
\* statuses and timestamps, and it holds each release once.
C15_RestartYieldsSameJournal ==
  [][(restarts' = restarts + 1 /\ store = "journal" /\ loaded /\ AllIdle) =>
       /\ FreshLoad' = mem
       /\ \A i, j \in 1..Len(FreshLoad') :
            FreshLoad'[i].id = FreshLoad'[j].id => i = j]_vars

\* The store has just been restarted after a promote had returned, and a
\* fresh load yields the promoted release.
C15_Witness ==
  /\ store = "journal"
  /\ restarts = 1
  /\ ~loaded
  /\ AllIdle
  /\ \E i \in 1..Len(FreshLoad) :
       /\ FreshLoad[i].status = "promoted"
       /\ FreshLoad[i].promotedAt # Undefined
       /\ \E k \in 1..Len(promoteDone) : promoteDone[k] = FreshLoad[i].id

\* C16: when the journal write of a create, promote or rollback of the
\* JournalReleaseStore fails, with no other request in flight, the call ends
\* in an error and the releases the store holds in memory are those a fresh
\* load of the journal file yields: the change that was not persisted is
\* not shown.
C16_FailedWriteNotShown ==
  [][\A p \in Procs :
       (/\ store = "journal"
        /\ proc[p].pc = "persist"
        /\ proc'[p].pc = "done"
        /\ proc'[p].at = "persist"
        /\ \A q \in Procs \ {p} : proc[q].pc = "idle") =>
         /\ proc'[p].out = "ioerror"
         /\ mem' = FreshLoad']_vars

\* The file in which the store looks up release id.
RecordFile(id) == IF store = "journal" THEN JournalFile ELSE ReleaseFile(id)

\* C17: a read of a release that a create has returned, reading the journal
\* while another request's write of the same file is in progress, gets a
\* whole document, never a partly written one, so it does not fail because
\* of the write.
C17_ReadSeesWholeJournal ==
  [][\A p \in Procs :
       (/\ proc[p].kind = "read"
        /\ proc[p].id \in createDone
        /\ proc[p].pc \in {"load_read", "read_file"}
        /\ proc'[p].pc \in {"load_cb", "read_cb"}
        /\ \E q \in Procs \ {p} :
             /\ proc[q].pc \in {"ensure_persist", "persist", "write_release"}
             /\ Target(proc[q]) = RecordFile(proc[p].id)) =>
         Readable(proc'[p].buf)]_vars

\* --------------------------------------------- the stores' delivery lookups
\* What a lookup gives when its promise rejects.
Raised == [raised |-> TRUE]

\* readActiveReleaseId of either store: the activeReleaseId of the index
\* file, 0 (null) when the file cannot be read or parsed.
ReadActiveReleaseId ==
  IF Readable(fs[IndexFile]) THEN fs[IndexFile].body.activeReleaseId ELSE 0

\* this.read(id) of the JournalReleaseStore behind a catch: the release of
\* the journal (loaded from the file if no call has loaded it yet), or null.
ReadOrNull(id) ==
  LET m == IF loaded THEN mem ELSE FreshLoad IN
    IF IndexOf(m, id) # 0 THEN m[IndexOf(m, id)] ELSE Null

\* JournalReleaseStore.getDeliverySnapshot(releaseId); 0 is the omitted id.
GetDeliverySnapshot(releaseId) ==
  IF releaseId # 0 THEN ReadOrNull(releaseId)
  ELSE IF ReadActiveReleaseId = 0 THEN Null
       ELSE ReadOrNull(ReadActiveReleaseId)

\* FileReleaseStore.readFromDelivery(id): the parsed snapshot file; readFile
\* and JSON.parse throw when the file is missing or does not parse.
ReadFromDelivery(id) ==
  IF Readable(fs[SnapshotFile(id)]) THEN fs[SnapshotFile(id)].body ELSE Raised

\* FileReleaseStore.getDeliveryRelease(releaseId); 0 is the omitted id.  The
\* promise of readFromDelivery is returned without await, so the catch block
\* around it never runs.
GetDeliveryRelease(releaseId) ==
  LET targetId == IF releaseId # 0 THEN releaseId ELSE ReadActiveReleaseId IN
    IF targetId = 0 THEN Null ELSE ReadFromDelivery(targetId)

\* The delivery lookup of the store in use.
StoreLookup(releaseId) ==
  IF store = "journal" THEN GetDeliverySnapshot(releaseId)
  ELSE GetDeliveryRelease(releaseId)

\* res is the answer owed for an explicit id: a release of that id when a
\* snapshot of id has been published, null when none has.
ExactAnswer(res, id) ==
  IF Readable(fs[SnapshotFile(id)])
  THEN res # Null /\ res # Raised /\ res.id = id
  ELSE res = Null

\* C18: asked for an explicit id, the Delivery API resolver and the store's
\* delivery lookup return a release of exactly that id when a snapshot of
\* it has been published and not-found (null) when none has, whatever the
\* Active Pointer names.
C18_ExplicitIdExact ==
  \A id \in Ids :
    /\ ExactAnswer(ResolveRelease(id), id)
    /\ ExactAnswer(StoreLookup(id), id)

\* C19: asked with no id, the Delivery API resolver and the store's delivery
\* lookup return not-found (null), and do not raise, when there is no Active
\* Pointer and when the pointer names a release whose snapshot file is
\* missing or unreadable.
C19_NoIdNotFound ==
  (\/ ReadReleaseIndex = 0
   \/ ~Readable(fs[SnapshotFile(ReadReleaseIndex)])) =>
    /\ ResolveRelease(0) = Null
    /\ StoreLookup(0) = Null

\* The journal as the store's calls see it: this.state.releases, which the
\* first call after a start loads from releases.json (JournalReleaseStore),
\* or the release files (FileReleaseStore).
JournalView ==
  IF store = "journal"
  THEN IF loaded THEN mem ELSE FreshLoad
  ELSE [i \in Ids |-> fs[ReleaseFile(i)]]

\* Request p, a read, promote or rollback of an id that no create has ever
\* drawn, takes a step.
UnknownIdStep(p) ==
  LET pr == IF proc[p].pc = "idle" THEN proc'[p] ELSE proc[p] IN
    /\ proc'[p] # proc[p]
    /\ restarts' = restarts
    /\ pr.kind \in {"read", "promote", "rollback"}
    /\ pr.id \notin 1..Len(origin)

\* C20: a read, promote or rollback of an id that is not in the journal ends
\* in not-found, and no step of it changes the journal, a delivery snapshot
\* or the Active Pointer.
C20_UnknownIdChangesNothing ==
  [][\A p \in Procs :
       UnknownIdStep(p) =>
         /\ proc'[p].pc = "done" => proc'[p].out = "notfound"
         /\ JournalView' = JournalView
         /\ \A i \in Ids : fs'[SnapshotFile(i)] = fs[SnapshotFile(i)]
         /\ fs'[IndexFile] = fs[IndexFile]]_vars

\* ------------------------------------------------- POST /v1/releases intake
\* A page with the path and the locale of PageDemo under another id.
PageDemoAgain ==
  [id |-> "page-3", path |-> "/demo", locale |-> "en-AU", title |-> "Demo 2",
   components |-> <<>>]

\* The page lists a request body can carry: the lists of PageLists, the
\* empty list and a list with one (path, locale) pair twice.
BodyPageLists == PageLists \cup {<<>>, <<PageDemo, PageDemoAgain>>}

\* createReleaseSchema.parse: pages is a non-empty array of page entries
\* (every page of the model has the fields pageEntrySchema asks for).
CreateReleaseSchema(pages) == Len(pages) > 0

\* POST /v1/releases: the body is parsed, then releaseStore.create is
\* called; a body the schema rejects is answered with an error and the
\* store is not called.
PostReleases(p) ==
  \E pages \in BodyPageLists :
    IF CreateReleaseSchema(pages)
    THEN JStart(p, "create", 0, pages)
    ELSE /\ store = "journal"
         /\ proc[p].pc = "idle"
         /\ ops' = ops + 1
         /\ UNCHANGED <<store, loaded, mem, fs, now, proc, origin, untouched,
                        promoteCalled, promoteDone, createDone, restarts>>
         /\ UNCHANGED orchVars

\* The publication service used by one caller that awaits each call, with
\* request bodies of any shape, on storage that does not fail.
IntakeNext ==
  \/ \E p \in Procs : ops < MaxSeqOps /\ AllIdle /\ PostReleases(p)
  \/ \E p \in Procs : ops < MaxSeqOps /\ AllIdle /\ JRead(p)
  \/ \E p \in Procs : ops < MaxSeqOps /\ AllIdle /\ JPromote(p)
  \/ \E p \in Procs : ops < MaxSeqOps /\ AllIdle /\ JRollback(p)
  \/ \E p \in Procs : LoadRead(p)
  \/ \E p \in Procs : LoadParsed(p)
  \/ \E p \in Procs : LoadCaught(p)
  \/ \E p \in Procs : LoadReset(p)
  \/ \E p \in Procs : LoadPersisted(p)
  \/ \E p \in Procs : WriteOpen(p)
  \/ \E p \in Procs : WriteDone(p)
  \/ \E p \in Procs : MkdirDone(p)
  \/ \E p \in Procs : Return(p)
  \/ AllIdle /\ Restart

\* buildServer constructs the JournalReleaseStore.
IntakeInit == Init /\ store = "journal"

IntakeSpec == IntakeInit /\ [][IntakeNext]_vars

\* pages has two entries with the same (path, locale) pair.
HasDuplicate(pages) ==
  \E i, j \in 1..Len(pages) :
    i # j /\ pages[i].path = pages[j].path /\ pages[i].locale = pages[j].locale

\* C21: no release in the journal (in memory or in releases.json) and no
\* delivery snapshot has two pages with the same (path, locale) pair.
C21_NoDuplicatePages ==
  /\ \A i \in 1..Len(mem) : ~HasDuplicate(mem[i].pages)
  /\ \A i \in 1..Len(FreshLoad) : ~HasDuplicate(FreshLoad[i].pages)
  /\ \A id \in Ids :
       Readable(fs[SnapshotFile(id)]) => ~HasDuplicate(fs[SnapshotFile(id)].body.pages)

\* ------------------------------------------------- authoring-api: releases
\* The pageIds a POST /v1/releases body can carry: one page, two pages in
\* another order than the table's, three ids of which one names no page,
\* and one id twice (releaseRequestSchema: a non-empty array of uuids).
PageIdLists == {<<1>>, <<2, 1>>, <<1, MissingPageId, 2>>, <<1, 1>>}

\* prisma.page.findMany({ where: { id: { in: pageIds } } }): the rows whose
\* id is in the list, each once, in an order the database chooses.
FindMany(pageIds) ==
  LET found == {id \in DbPageIds : \E k \in 1..Len(pageIds) : pageIds[k] = id}
      n == Cardinality(found)
  IN {[k \in 1..n |-> [id |-> order[k], content |-> pageDb[order[k]]]] :
        order \in {o \in [1..n -> found] : \A a, b \in 1..n : o[a] = o[b] => a = b}}

\* pages.find((page) => page.id === id): the position of the first row
\* with that id, 0 when there is none.
Find(pages, id) ==
  IF \E k \in 1..Len(pages) : pages[k].id = id
  THEN CHOOSE k \in 1..Len(pages) :
         pages[k].id = id /\ \A j \in 1..(k - 1) : pages[j].id # id
  ELSE 0

\* A faulty filter that names every requested id.
MissingNamesAll(pageIds, pages) == pageIds

\* payload.pageIds.filter((id) => !pages.find(...)): the ids with no row.
Missing(pageIds, pages) == SelectSeq(pageIds, LAMBDA id : Find(pages, id) = 0)

\* A faulty submit that keeps the order in which findMany returned the rows.
OrderedPagesAsFound(pageIds, pages) == pages

\* orderedPages: payload.pageIds.map((id) => pages.find(...)).filter(Boolean).
OrderedPages(pageIds, pages) ==
  LET hits == SelectSeq(pageIds, LAMBDA id : Find(pages, id) # 0)
  IN [k \in 1..Len(hits) |-> pages[Find(pages, hits[k])]]

\* tx.releasePage.createMany: one ReleasePage row per ordered page, with
\* sortOrder its index and the page's columns copied.
ReleasePages(ordered) ==
  {[pageId |-> ordered[k].id, sortOrder |-> k - 1, content |-> ordered[k].content] :
     k \in 1..Len(ordered)}

\* include: { pages: { orderBy: { sortOrder: 'asc' } } }: the rows of a
\* release in ascending sortOrder (unique per release).
BySortOrder(rows) ==
  [k \in 1..Cardinality(rows) |->
     CHOOSE r \in rows :
       Cardinality({q \in rows : q.sortOrder < r.sortOrder}) = k - 1]

\* fetchReleaseWithPages(releaseId).pages.
FetchReleaseWithPages(releaseId) == BySortOrder(rels[releaseId].pages)

\* A faulty payload built from the rows of the Page table as they are now.
PayloadFromLivePages(releaseId) ==
  [k \in 1..Len(FetchReleaseWithPages(releaseId)) |->
     [id |-> FetchReleaseWithPages(releaseId)[k].pageId,
      content |-> pageDb[FetchReleaseWithPages(releaseId)[k].pageId]]]

\* submitReleaseToPublication: payload.pages, mapped from the stored rows.
Payload(releaseId) ==
  [k \in 1..Len(FetchReleaseWithPages(releaseId)) |->
     [id |-> FetchReleaseWithPages(releaseId)[k].pageId,
      content |-> FetchReleaseWithPages(releaseId)[k].content]]

\* A slot for a new call of submitReleaseToPublication.
FreeTask == CHOOSE t \in Tasks : tasks[t].pc = "idle" /\ \A u \in 1..(t - 1) : tasks[u].pc # "idle"

\* submitReleaseToPublication(releaseId) is called: it awaits the fetch of
\* the release first.
Called(route, releaseId) ==
  [tasks EXCEPT ![FreeTask] = [IdleTask EXCEPT !.pc = "fetch_release", !.route = route,
                                               !.releaseId = releaseId]]

\* History: the pages a submit was asked for, in the caller's order, as
\* they were in the Page table at that time.
Requested(pageIds) ==
  [k \in 1..Len(pageIds) |-> [id |-> pageIds[k], content |-> pageDb[pageIds[k]]]]

\* POST /v1/releases of the authoring-api: the pages are looked up; when
\* their number differs from the number of ids the request is answered 400
\* with the ids not found; else the release and its ReleasePage rows are
\* created in one transaction and submitReleaseToPublication is called.
Submit ==
  /\ calls < MaxCalls
  /\ \E t \in Tasks : tasks[t].pc = "idle"
  /\ calls' = calls + 1
  /\ \E pageIds \in PageIdLists : \E pages \in FindMany(pageIds) :
       IF Len(pages) # Len(pageIds)
       THEN /\ reply' = [kind |-> "badRequest", pageIds |-> pageIds,
                         missing |-> Missing(pageIds, pages)]
            /\ UNCHANGED <<rels, tasks>>
       ELSE /\ Len(rels) < MaxLocal
            /\ rels' = Append(rels,
                 [status |-> "QUEUED", publicationId |-> 0, errorMessage |-> NoMessage,
                  lastSubmittedAt |-> FALSE,
                  pages |-> ReleasePages(OrderedPages(pageIds, pages)),
                  requested |-> Requested(pageIds)])
            /\ tasks' = Called("submit", Len(rels) + 1)
            /\ reply' = [kind |-> "queued", pageIds |-> pageIds, releaseId |-> Len(rels) + 1]
  /\ UNCHANGED <<pageDb, remote>>
  /\ UNCHANGED journalVars

\* POST /v1/releases/:id/retry: 404 for an id of no release; else the
\* release is set to QUEUED with no error message and
\* submitReleaseToPublication is called.
Retry ==
  /\ calls < MaxCalls
  /\ \E t \in Tasks : tasks[t].pc = "idle"
  /\ calls' = calls + 1
  /\ \E id \in 1..MaxLocal :
       IF id \notin DOMAIN rels
       THEN /\ reply' = [kind |-> "notFound", releaseId |-> id]
            /\ UNCHANGED <<rels, tasks>>
       ELSE /\ rels' = [rels EXCEPT ![id] =
                          [@ EXCEPT !.status = "QUEUED", !.errorMessage = NoMessage]]
            /\ tasks' = Called("retry", id)
            /\ reply' = [kind |-> "requeued", releaseId |-> id]
  /\ UNCHANGED <<pageDb, remote>>
  /\ UNCHANGED journalVars

\* The row of a page in the Page table is changed: the live page is edited.
EditPage ==
  /\ calls < MaxCalls
  /\ calls' = calls + 1
  /\ \E id \in DbPageIds :
       /\ pageDb[id] < MaxEdits
       /\ pageDb' = [pageDb EXCEPT ![id] = @ + 1]
  /\ UNCHANGED <<rels, tasks, remote, reply>>
  /\ UNCHANGED journalVars

\* submitReleaseToPublication: the release is fetched with its pages, the
\* payload is built and fetch posts it to the publication service.
PostPayload(t) ==
  /\ tasks[t].pc = "fetch_release"
  /\ tasks' = [tasks EXCEPT ![t] =
                 [@ EXCEPT !.pc = "posted", !.payload = Payload(tasks[t].releaseId)]]
  /\ UNCHANGED <<pageDb, rels, remote, reply, calls>>
  /\ UNCHANGED journalVars

\* The publication service creates the release and answers 202 with it.
RemoteAccepts(t) ==
  /\ tasks[t].pc = "posted"
  /\ remote' = Append(remote, [releaseId |-> tasks[t].releaseId, pages |-> tasks[t].payload])
  /\ tasks' = [tasks EXCEPT ![t] = [@ EXCEPT !.pc = "accepted", !.publicationId = Len(remote) + 1]]
  /\ UNCHANGED <<pageDb, rels, reply, calls>>
  /\ UNCHANGED journalVars

\* The publication service answers with a status that is not ok: the try
\* block throws 'Publication service rejected release'.
RemoteRejects(t) ==
  /\ tasks[t].pc = "posted"
  /\ tasks' = [tasks EXCEPT ![t] = [@ EXCEPT !.pc = "caught", !.message = "rejected"]]
  /\ UNCHANGED <<pageDb, rels, remote, reply, calls>>
  /\ UNCHANGED journalVars

\* fetch throws (the service cannot be reached, or the connection breaks
\* after the service has created the release).
FetchFails(t) ==
  /\ tasks[t].pc = "posted"
  /\ \E reached \in BOOLEAN :
       remote' = IF reached
                 THEN Append(remote, [releaseId |-> tasks[t].releaseId,
                                      pages |-> tasks[t].payload])
                 ELSE remote
  /\ tasks' = [tasks EXCEPT ![t] = [@ EXCEPT !.pc = "caught", !.message = "fetch failed"]]
  /\ UNCHANGED <<pageDb, rels, reply, calls>>
  /\ UNCHANGED journalVars

\* A faulty success path that leaves the error message of an earlier attempt.
SubmittedDataKeepsError(r, publicationId) ==
  [r EXCEPT !.status = "SUBMITTED", !.publicationId = publicationId,
            !.lastSubmittedAt = TRUE]

\* The data of the update after the remote create succeeded.
SubmittedData(r, publicationId) ==
  [r EXCEPT !.status = "SUBMITTED", !.publicationId = publicationId,
            !.errorMessage = NoMessage, !.lastSubmittedAt = TRUE]

\* A faulty catch block that throws the error on without the update.
FailedDataNotWritten(r, message) == r

\* A faulty catch block that stores the message and leaves the status.
FailedDataKeepsStatus(r, message) ==
  [r EXCEPT !.errorMessage = message, !.lastSubmittedAt = TRUE]

\* The data of the update in the catch block.
FailedData(r, message) ==
  [r EXCEPT !.status = "FAILED", !.errorMessage = message, !.lastSubmittedAt = TRUE]

\* submitReleaseToPublication: the response was ok; the release is updated
\* and the call returns.
RecordSubmitted(t) ==
  /\ tasks[t].pc = "accepted"
  /\ rels' = [rels EXCEPT ![tasks[t].releaseId] = SubmittedData(@, tasks[t].publicationId)]
  /\ tasks' = [tasks EXCEPT ![t] = IdleTask]
  /\ UNCHANGED <<pageDb, remote, reply, calls>>
  /\ UNCHANGED journalVars

\* submitReleaseToPublication: the catch block updates the release and
\* throws the error on.
RecordFailed(t) ==
  /\ tasks[t].pc = "caught"
  /\ rels' = [rels EXCEPT ![tasks[t].releaseId] = FailedData(@, tasks[t].message)]
  /\ tasks' = [tasks EXCEPT ![t] = IdleTask]
  /\ UNCHANGED <<pageDb, remote, reply, calls>>
  /\ UNCHANGED journalVars

\* The authoring-api with the publication service as its remote: submits,
\* retries and page edits arrive at any time, submissions overlap.
OrchNext ==
  \/ Submit
  \/ Retry
  \/ EditPage
  \/ \E t \in Tasks : PostPayload(t)
  \/ \E t \in Tasks : RemoteAccepts(t)
  \/ \E t \in Tasks : RemoteRejects(t)
  \/ \E t \in Tasks : FetchFails(t)
  \/ \E t \in Tasks : RecordSubmitted(t)
  \/ \E t \in Tasks : RecordFailed(t)

OrchSpec == IntakeInit /\ [][OrchNext]_vars

\* ----------------------------------------------------- authoring-api claims
\* Call t of submitReleaseToPublication ends in this step.
AttemptEnds(t) == tasks[t].pc \in {"accepted", "caught"} /\ tasks'[t].pc = "idle"

\* C22: when a submission attempt ends after the remote create succeeded,
\* the local release is SUBMITTED, its publicationId is the id the remote
\* gave to the release created for it, and it has no error message; when it
\* ends after a failure, the local release is FAILED with the error's
\* message, and it still has the page rows it had.
C22_AttemptOutcomeRecorded ==
  [][\A t \in Tasks :
       AttemptEnds(t) =>
         LET id == tasks[t].releaseId IN
           /\ id \in DOMAIN rels'
           /\ rels'[id].pages = rels[id].pages
           /\ rels'[id].pages # {}
           /\ IF tasks[t].pc = "accepted"
              THEN /\ rels'[id].status = "SUBMITTED"
                   /\ rels'[id].publicationId = tasks[t].publicationId
                   /\ remote[rels'[id].publicationId].releaseId = id
                   /\ rels'[id].errorMessage = NoMessage
              ELSE /\ rels'[id].status = "FAILED"
                   /\ rels'[id].errorMessage = tasks[t].message
                   /\ rels'[id].errorMessage # NoMessage]_vars

\* One release's attempt has ended in a failure and another's in a success,
\* and no attempt is in flight.
C22_Witness ==
  /\ \A t \in Tasks : tasks[t].pc = "idle"
  /\ \E i, j \in DOMAIN rels :
       /\ rels[i].status = "FAILED"
       /\ rels[i].errorMessage = "rejected"
       /\ rels[j].status = "SUBMITTED"
       /\ rels[j].publicationId \in DOMAIN remote

\* C23: the body a retry's submission posts, and so the release the remote
\* creates from it, holds exactly the pages the release was first submitted
\* with, in that order and with the content they had then, whatever the
\* Page table holds now; and no step changes the page rows stored with a
\* release.
C23_RetryReusesBundle ==
  /\ [](\A t \in Tasks :
          (tasks[t].route = "retry" /\ tasks[t].pc \in {"posted", "accepted", "caught"}) =>
            tasks[t].payload = rels[tasks[t].releaseId].requested)
  /\ [][\A id \in DOMAIN rels :
          /\ rels'[id].pages = rels[id].pages
          /\ rels'[id].requested = rels[id].requested]_vars

\* A retry has posted its body after a page of the release was edited.
C23_Witness ==
  \E t \in Tasks :
    /\ tasks[t].route = "retry"
    /\ tasks[t].pc = "posted"
    /\ Len(tasks[t].payload) = 2
    /\ \E k \in 1..Len(tasks[t].payload) :
         pageDb[tasks[t].payload[k].id] # tasks[t].payload[k].content

\* The authoring-api where every database call that was started completes
\* and every outbound call that was posted returns or fails.
OrchLiveSpec ==
  /\ OrchSpec
  /\ \A t \in Tasks :
       /\ WF_vars(PostPayload(t))
       /\ WF_vars(RemoteAccepts(t) \/ RemoteRejects(t) \/ FetchFails(t))
       /\ WF_vars(RecordSubmitted(t))
       /\ WF_vars(RecordFailed(t))

\* The status of local release id; "FailedWithMessage" for a FAILED release
\* that has an error message, "none" when there is no such release.
LocalStatus(id) ==
  IF id \notin DOMAIN rels THEN "none"
  ELSE IF rels[id].status = "FAILED" /\ rels[id].errorMessage # NoMessage
       THEN "FailedWithMessage"
       ELSE rels[id].status

\* C24: provided each outbound call returns or fails, a local release that
\* is QUEUED is SUBMITTED later, or FAILED with an error message recorded.
C24_QueuedResolves ==
  \A id \in 1..MaxLocal :
    (LocalStatus(id) = "QUEUED") ~>
      (LocalStatus(id) = "SUBMITTED" \/ LocalStatus(id) = "FailedWithMessage")

\* A retry has put a release that had failed back to QUEUED and its
\* outbound call is under way.
C24_Witness ==
  \E t \in Tasks :
    /\ tasks[t].route = "retry"
    /\ tasks[t].pc = "posted"
    /\ rels[tasks[t].releaseId].status = "QUEUED"
    /\ rels[tasks[t].releaseId].lastSubmittedAt
    /\ \A u \in Tasks \ {t} : tasks[u].pc = "idle"

\* This step is a POST /v1/releases of the authoring-api.
SubmitStep ==
  /\ calls' = calls + 1
  /\ pageDb' = pageDb
  /\ reply'.kind \in {"badRequest", "queued"}

\* The ids of a list that name no row of the Page table.
NotInDb(pageIds) == {pageIds[k] : k \in 1..Len(pageIds)} \ DbPageIds

\* C25: a submit with a page id that names no page is answered with the
\* error that lists exactly the ids that name no page; it creates no local
\* release, starts no submission and posts nothing to the remote.
C25_MissingPagesRejected ==
  [][(SubmitStep /\ NotInDb(reply'.pageIds) # {}) =>
       /\ reply'.kind = "badRequest"
       /\ {reply'.missing[k] : k \in 1..Len(reply'.missing)} = NotInDb(reply'.pageIds)
       /\ rels' = rels
       /\ tasks' = tasks
       /\ remote' = remote]_vars

\* A submit of three ids of which one names no page has been rejected,
\* after an earlier submit had created a release.
C25_Witness ==
  /\ reply.kind = "badRequest"
  /\ Len(reply.pageIds) = 3
  /\ reply.missing = <<MissingPageId>>
  /\ Len(rels) = 1

\* The page ids of a sequence of pages or page rows, in its order.
IdsOf(pages) == [k \in 1..Len(pages) |-> pages[k].id]

\* C26: the page rows of a local release read in their stored order, the
\* body every submission posts for it and the pages of the release the
\* remote creates from it are in the order of the page ids the submit was
\* called with, whatever order findMany returned the rows in.
C26_CallerOrderKept ==
  /\ \A id \in DOMAIN rels :
       [k \in 1..Len(FetchReleaseWithPages(id)) |-> FetchReleaseWithPages(id)[k].pageId]
         = IdsOf(rels[id].requested)
  /\ \A t \in Tasks :
       tasks[t].pc \in {"posted", "accepted", "caught"} =>
         IdsOf(tasks[t].payload) = IdsOf(rels[tasks[t].releaseId].requested)
  /\ \A k \in DOMAIN remote :
       IdsOf(remote[k].pages) = IdsOf(rels[remote[k].releaseId].requested)

\* The remote has created a release from a submit and one from a retry of
\* the same local release, both with page 2 before page 1.
C26_Witness ==
  \E j, k \in DOMAIN remote :
    /\ j < k
    /\ remote[j].releaseId = remote[k].releaseId
    /\ IdsOf(remote[j].pages) = <<2, 1>>
    /\ IdsOf(remote[k].pages) = <<2, 1>>

\* C27: in every state of the Release table, with a submit's attempt and
\* retries of the same release overlapping as well, a release that has an
\* error message is FAILED.
C27_ErrorOnlyWhenFailed ==
  \A id \in DOMAIN rels :
    rels[id].errorMessage # NoMessage => rels[id].status = "FAILED"

\* The attempt of a submit and the attempt of a retry of the same release
\* overlapped: the retry's has recorded its failure while the submit's
\* outbound call is still out.
C27_Witness ==
  \E t \in Tasks :
    /\ tasks[t].route = "submit"
    /\ tasks[t].pc = "posted"
    /\ rels[tasks[t].releaseId].status = "FAILED"
    /\ rels[tasks[t].releaseId].errorMessage = "fetch failed"

\* ------------------------------------------------------ rollback, then read
\* read(id) of the store in use, called now with no other call in flight:
\* the release found, NoRelease when the call throws.
Read(id) ==
  IF store = "journal"
  THEN IF ReadOrNull(id) = Null THEN NoRelease ELSE ReadOrNull(id)
  ELSE IF Readable(fs[ReleaseFile(id)])
       THEN ParseRelease(fs[ReleaseFile(id)].body)
       ELSE NoRelease

\* No create, promote or rollback is in flight before or after the step.
QuietStep ==
  \A p \in Procs :
    /\ proc[p].kind \notin {"create", "promote", "rollback"}
    /\ proc'[p].kind \notin {"create", "promote", "rollback"}

\* The read in slot p returns in this step.
ReadReturns(p) ==
  /\ proc[p].pc # "done"
  /\ proc'[p].pc = "done"
  /\ proc'[p].kind = "read"

\* C29: with the calls made one after the other, a rollback(id) of a release
\* that exists, whatever its status was, returns that release with status
\* rolledback and rolledBackAt set, and that is the release read(id) finds;
\* until the next create, promote or rollback what read(id) finds stays the
\* same, and a read that returns gives exactly it.
C29_RollbackThenRead ==
  /\ [](\A p \in Procs :
          (/\ proc[p].kind = "rollback"
           /\ proc[p].pc = "done"
           /\ proc[p].id \in createDone) =>
            /\ proc[p].out = "ok"
            /\ Deref(proc[p]).id = proc[p].id
            /\ Deref(proc[p]).status = "rolledback"
            /\ Deref(proc[p]).rolledBackAt # Undefined
            /\ Read(proc[p].id) = Deref(proc[p]))
  /\ [][QuietStep =>
          /\ \A id \in Ids : Read(id)' = Read(id)
          /\ \A p \in Procs :
               (ReadReturns(p) /\ Read(proc'[p].id) # NoRelease) =>
                 /\ proc'[p].out = "ok"
                 /\ Deref(proc[p])' = Read(proc'[p].id)]_vars

\* A read that followed the rollback of a release never promoted has
\* returned the release with status rolledback and its rollback timestamp.
C29_Witness ==
  \E p \in Procs :
    /\ proc[p].kind = "read"
    /\ proc[p].pc = "done"
    /\ proc[p].out = "ok"
    /\ Deref(proc[p]).status = "rolledback"
    /\ Deref(proc[p]).rolledBackAt # Undefined
    /\ Deref(proc[p]).promotedAt = Undefined

\* ------------------------------------------------------------------ summary
\* A faulty tally that never counts a rolled back release.
TallyForgetsRolledBack(m) ==
  [s \in Statuses |->
     IF s = "rolledback" THEN 0
     ELSE Cardinality({i \in 1..Len(m) : m[i].status = s})]

\* summary: the three counters start at 0 and each release of the array adds
\* one to the counter of its status.
Tally(m) ==
  [s \in Statuses |-> Cardinality({i \in 1..Len(m) : m[i].status = s})]

\* JournalReleaseStore.summary(): the tally of this.state.releases, which
\* ensureLoaded loads from releases.json when no call has loaded it yet.
Summary == Tally(IF loaded THEN mem ELSE FreshLoad)

\* The releases created so far that read(id) shows with status s.
Showing(s) == {id \in 1..Len(origin) : Read(id) # NoRelease /\ Read(id).status = s}

\* C30: with the calls made one after the other, summary() of the
\* JournalReleaseStore gives for created, promoted and rolledback the number
\* of created releases that read shows in that status, and the three counts
\* add up to the number of releases created.
C30_SummaryCounts ==
  store = "journal" =>
    /\ \A s \in Statuses : Summary[s] = Cardinality(Showing(s))
    /\ Summary["created"] + Summary["promoted"] + Summary["rolledback"] = Len(origin)

\* Two releases were created, one of them was promoted and the other rolled
\* back, and every call has returned.
C30_Witness ==
  /\ store = "journal"
  /\ AllIdle
  /\ Len(origin) = 2
  /\ Summary = [s \in Statuses |-> IF s = "created" THEN 0 ELSE 1]

\* ------------------------------------------------- the two stores' interface
\* summary() called on the store in use.  FileReleaseStore declares create,
\* read, list, promote, rollback and getDeliveryRelease and no summary: the
\* call throws (store.summary is not a function).
StoreSummary == IF store = "journal" THEN Summary ELSE Raised

\* C28: whichever of the two stores is in use, once releases have been
\* created and with the calls made one after the other, summary() is
\* provided and gives for each status the number of created releases that
\* read shows in that status.
C28_EitherStoreSummarises ==
  (AllIdle /\ createDone # {}) =>
    /\ StoreSummary # Raised
    /\ \A s \in Statuses : StoreSummary[s] = Cardinality(Showing(s))

\* --------------------------------------------------------------------- list
\* The filter argument without a status.
NoFilter == "none"

\* A faulty list that leaves the sort out.
Unsorted(s) == s

\* .sort((a, b) => b.createdAt.localeCompare(a.createdAt)): the array by
\* createdAt, latest first; the sort is stable, so releases of the same
\* createdAt keep the order they had.
RECURSIVE SortNewestFirst(_)
SortNewestFirst(s) ==
  IF s = <<>> THEN <<>>
  ELSE LET rest == SortNewestFirst(Tail(s))
           before == SelectSeq(rest, LAMBDA r : r.createdAt > Head(s).createdAt)
           after == SelectSeq(rest, LAMBDA r : r.createdAt <= Head(s).createdAt)
       IN before \o <<Head(s)>> \o after

\* The callback of .filter(...) for a filter that has no search text.
Filtered(s, status) ==
  SelectSeq(s, LAMBDA r : status = NoFilter \/ r.status = status)

\* fsp.readdir(this.releasesDir): the names of the release files, in an order
\* the file system chooses.
Readdir ==
  LET present == {i \in Ids : fs[ReleaseFile(i)] # Absent} IN
    {o \in [1..Cardinality(present) -> present] :
       \A i, j \in DOMAIN o : o[i] = o[j] => i = j}

\* list(filter) of the store in use, called now with no other call in
\* flight: the answers it can give, an array (items) or, when threw is set,
\* an exception.  FileReleaseStore reads every file of the directory; when
\* one of them does not parse, the call throws.
List(status) ==
  IF store = "journal"
  THEN {[threw |-> FALSE,
         items |-> SortNewestFirst(Filtered(IF loaded THEN mem ELSE FreshLoad, status))]}
  ELSE {IF \E k \in DOMAIN o : ~Readable(fs[ReleaseFile(o[k])])
        THEN [threw |-> TRUE, items |-> <<>>]
        ELSE [threw |-> FALSE,
              items |-> SortNewestFirst(Filtered(
                [k \in DOMAIN o |-> ParseRelease(fs[ReleaseFile(o[k])].body)], status))]
        : o \in Readdir}

\* The releases created so far that the filter lets through.
Matching(status) ==
  IF status = NoFilter THEN 1..Len(origin) ELSE Showing(status)

\* C31: with the calls made one after the other, list with status filter s
\* returns exactly the releases whose status is s, each once, the later
\* created before the earlier; list without a filter returns every release
\* that was created.
C31_ListFiltersAndOrders ==
  AllIdle =>
    \A status \in Statuses \cup {NoFilter} :
      \A a \in List(status) :
        LET l == a.items IN
          /\ ~a.threw
          /\ {l[k].id : k \in DOMAIN l} = Matching(status)
          /\ Len(l) = Cardinality(Matching(status))
          /\ \A k \in DOMAIN l : l[k] = Read(l[k].id)
          /\ \A j, k \in DOMAIN l : j < k => l[j].createdAt >= l[k].createdAt

\* Two releases created at different times have both been promoted, and the
\* list of the promoted releases holds the later one first.
C31_Witness ==
  /\ AllIdle
  /\ \E a \in List("promoted") :
       /\ Len(a.items) = 2
       /\ a.items[1].createdAt > a.items[2].createdAt
       /\ a.items[1].id > a.items[2].id

\* ------------------------------------------- GET /v1/delivery/pages/by-path
\* The path and locale query parameters a request can carry.
QueryPaths == {"/demo", "/"}
QueryLocales == {"en-AU", "fr-FR"}

\* A faulty find that compares the path only.
FindPageByPathOnly(pages, pagePath, locale) ==
  IF \E k \in DOMAIN pages : pages[k].path = pagePath
  THEN CHOOSE k \in DOMAIN pages :
         /\ pages[k].path = pagePath
         /\ \A j \in 1..(k - 1) : pages[j].path # pagePath
  ELSE 0

\* release.pages.find((p) => p.path === pagePath && p.locale === locale):
\* the position of the first such page, 0 when there is none.
FindPage(pages, pagePath, locale) ==
  IF \E k \in DOMAIN pages : pages[k].path = pagePath /\ pages[k].locale = locale
  THEN CHOOSE k \in DOMAIN pages :
         /\ pages[k].path = pagePath /\ pages[k].locale = locale
         /\ \A j \in 1..(k - 1) : ~(pages[j].path = pagePath /\ pages[j].locale = locale)
  ELSE 0

\* The route's answer for a request that carries path and locale; releaseId 0
\* is the omitted parameter.
ByPath(pagePath, locale, releaseId) ==
  LET release == ResolveRelease(releaseId) IN
    IF release = Null
    THEN [kind |-> "notFound", message |-> "No promoted release found"]
    ELSE IF FindPage(release.pages, pagePath, locale) = 0
    THEN [kind |-> "notFound", message |-> "Page not found in release snapshot"]
    ELSE [kind |-> "page",
          page |-> release.pages[FindPage(release.pages, pagePath, locale)],
          releaseId |-> release.id,
          status |-> release.status]

\* The release the by-path lookup is to answer from: the explicit id, else
\* the release the Active Pointer names (0: none).
Asked(releaseId) == IF releaseId # 0 THEN releaseId ELSE ReadReleaseIndex

\* C32: in every reachable state and for every path, locale and release id
\* (or none), a page the by-path lookup returns has the requested path and
\* locale, is a page submitted for the release asked for (the explicit id,
\* else the one the Active Pointer names) and carries that release's id and
\* the status of its snapshot; when that release resolves and was submitted
\* without such a page, the answer is not-found.
C32_ByPathFromResolvedRelease ==
  \A pagePath \in QueryPaths : \A locale \in QueryLocales : \A releaseId \in {0} \cup Ids :
    LET a == ByPath(pagePath, locale, releaseId) IN
      /\ a.kind = "page" =>
           /\ a.page.path = pagePath
           /\ a.page.locale = locale
           /\ a.releaseId = Asked(releaseId)
           /\ a.releaseId \in 1..Len(origin)
           /\ \E k \in DOMAIN origin[a.releaseId].pages :
                origin[a.releaseId].pages[k] = a.page
           /\ a.status = ResolveRelease(releaseId).status
      /\ (/\ ResolveRelease(releaseId) # Null
          /\ Asked(releaseId) \in 1..Len(origin)
          /\ FindPage(origin[Asked(releaseId)].pages, pagePath, locale) = 0) =>
           a = [kind |-> "notFound", message |-> "Page not found in release snapshot"]

\* A release submitted with the page /demo alone is the active release while
\* a release that holds the page / exists beside it: the lookup returns
\* /demo from the active release and answers not-found for /.
C32_Witness ==
  /\ ByPath("/demo", "en-AU", 0).kind = "page"
  /\ ByPath("/", "en-AU", 0).kind = "notFound"
  /\ ByPath("/demo", "fr-FR", 0).kind = "notFound"
  /\ \E id \in 1..Len(origin) : FindPage(origin[id].pages, "/", "en-AU") # 0

\* ------------------------------------------------- one remote release each
\* The releases of the publication journal that local release id has caused
\* to be created.
RemoteCreated(id) == {k \in DOMAIN remote : remote[k].releaseId = id}

\* C33: after any sequence of submit and retry calls, no local release has
\* caused more than one release to be created in the publication journal.
C33_AtMostOneRemoteRelease ==
  \A id \in DOMAIN rels : Cardinality(RemoteCreated(id)) <= 1

\* --------------------------------------------- pointer and latest promotion
\* The promotion timestamp the journal holds for release id, Undefined when
\* the journal holds no such release or it was never promoted.
PromotedAt(id) ==
  IF Read(id) = NoRelease THEN Undefined ELSE Read(id).promotedAt

\* The service on storage that does not fail, used by a caller that awaits
\* each create and then promotes without awaiting: promotes overlap one
\* another, the process is restarted only between requests.
PromoteRaceNext ==
  \/ \E p \in Procs : ops < MaxSeqOps /\ AllIdle /\ JCreate(p)
  \/ \E p \in Procs : ops < MaxSeqOps /\ AllIdle /\ FCreate(p)
  \/ \E p \in Procs : ops < MaxSeqOps /\ JPromote(p)
  \/ \E p \in Procs : ops < MaxSeqOps /\ FPromote(p)
  \/ \E p \in Procs : LoadRead(p)
  \/ \E p \in Procs : LoadParsed(p)
  \/ \E p \in Procs : LoadCaught(p)
  \/ \E p \in Procs : LoadReset(p)
  \/ \E p \in Procs : LoadPersisted(p)
  \/ \E p \in Procs : FileRead(p)
  \/ \E p \in Procs : FileReadDone(p)
  \/ \E p \in Procs : WriteOpen(p)
  \/ \E p \in Procs : WriteDone(p)
  \/ \E p \in Procs : MkdirDone(p)
  \/ \E p \in Procs : Return(p)
  \/ AllIdle /\ Restart

PromoteRaceSpec == Init /\ [][PromoteRaceNext]_vars

C35_PromotedHasSnapshot ==
  ~PromoteInFlight =>
    \A id \in Ids :
      (Read(id) # NoRelease /\ Read(id).status = "promoted") =>
        /\ Readable(fs[SnapshotFile(id)])
        /\ fs[SnapshotFile(id)].body.id = id
        /\ fs[SnapshotFile(id)].body.pages = Read(id).pages

\* ------------------------------------------------- resolve never goes back
\* C36: in every step, a release that resolve(id) returns before the step is
\* returned by resolve(id) after it, and when resolve() without an id
\* returns a release before the step it returns one after it; the steps of
\* a promote that writes the snapshot file or the pointer file again are
\* among them.
C36_ResolveStaysAvailable ==
  [][/\ \A id \in Ids :
          ResolveRelease(id) # Null =>
            (ResolveRelease(id)' # Null /\ ResolveRelease(id)'.id = id)
     /\ ResolveRelease(0) # Null => ResolveRelease(0)' # Null]_vars

\* --------------------------------- the store's lookup and the Delivery API
\* The two answers are both null, or both a release with the same id,
\* status and pages.
SameAnswer(a, b) ==
  IF a = Null \/ b = Null THEN a = Null /\ b = Null
  ELSE a.id = b.id /\ a.status = b.status /\ a.pages = b.pages

\* C37: with the calls made one after the other and all of them returned,
\* for an explicit release id and for none, getDeliverySnapshot of the
\* JournalReleaseStore (GET /v1/releases/active) and resolveRelease of the
\* Delivery API both answer null or both answer a release with the same id,
\* status and pages.
C37_LookupsAgree ==
  (store = "journal" /\ AllIdle) =>
    \A releaseId \in {0} \cup Ids :
      SameAnswer(GetDeliverySnapshot(releaseId), ResolveRelease(releaseId))

\* ------------------------------------------------- status and timestamps
\* The releases the journal holds: those of this.state.releases, those of
\* releases.json and those of the release files.
JournalRecords ==
  {mem[i] : i \in DOMAIN mem}
    \cup {FreshLoad[i] : i \in DOMAIN FreshLoad}
    \cup {ParseRelease(fs[ReleaseFile(id)].body) :
            id \in {i \in Ids : Readable(fs[ReleaseFile(i)])}}

\* The timestamps of release r fit its status.
StampsFitStatus(r) ==
  /\ r.status = "created" => (r.promotedAt = Undefined /\ r.rolledBackAt = Undefined)
  /\ r.status = "promoted" => (r.promotedAt # Undefined /\ r.rolledBackAt = Undefined)
  /\ r.status = "rolledback" => r.rolledBackAt # Undefined

\* C38: in every reachable state, whatever way promote and rollback calls of
\* one release interleave, every release the journal holds has a status of
\* created, promoted or rolledback; with created it has neither timestamp,
\* with promoted a promotion timestamp and no rollback timestamp, with
\* rolledback a rollback timestamp.
C38_TimestampsFitStatus ==
  \A r \in JournalRecords : r.status \in Statuses /\ StampsFitStatus(r)

\* A promote and a rollback of the same release ran at the same time, both
\* have answered, and the journal holds the release as promoted.
C38_Witness ==
  \E p, q \in Procs :
    /\ proc[p].kind = "promote" /\ proc[p].pc = "done" /\ proc[p].out = "ok"
    /\ proc[q].kind = "rollback" /\ proc[q].pc = "done" /\ proc[q].out = "ok"
    /\ proc[p].id = proc[q].id
    /\ \E r \in JournalRecords : r.id = proc[p].id /\ r.status = "promoted"

\* ------------------------------------------------ rejected only when missing
\* C39: a submit is answered with the missing-pages error only when one of
\* the requested ids names no page, and the error then lists at least one
\* id; a request whose ids all name pages is not rejected, also when an id
\* occurs in it more than once.
C39_RejectedOnlyWhenMissing ==
  [][(SubmitStep /\ reply'.kind = "badRequest") =>
       /\ NotInDb(reply'.pageIds) # {}
       /\ reply'.missing # <<>>]_vars

====
